---- MODULE Spec2Model ----
(***************************************************************************)
(* Model of LibreELEC/release-scripts:                                     *)
(*   releases.py       ReleaseFile.UpdateAll = ReadFile; UpdateFile;       *)
(*                     WriteFile (the manifest builder)                    *)
(*   prune-archive.py  ManageArchive.PruneArchive (the archive pruner)     *)
(* Strings are TLA+ strings handled character by character (Len, SubSeq,   *)
(* \o), so that startswith/endswith/removesuffix and the regular           *)
(* expressions act on the very file names the scripts see.                 *)
(***************************************************************************)
EXTENDS Integers, Sequences, FiniteSets, TLC

(***************************************************************************)
(* Python string primitives                                                *)
(***************************************************************************)
Char(s, i) == SubSeq(s, i, i)

startswith(s, p) == Len(p) <= Len(s) /\ SubSeq(s, 1, Len(p)) = p

endswith(s, x) == Len(x) <= Len(s) /\ SubSeq(s, Len(s) - Len(x) + 1, Len(s)) = x

removesuffix(s, x) ==
    IF x # "" /\ endswith(s, x) THEN SubSeq(s, 1, Len(s) - Len(x)) ELSE s

removeprefix(s, p) ==
    IF p # "" /\ startswith(s, p) THEN SubSeq(s, Len(p) + 1, Len(s)) ELSE s

\* Python's `sub in s` for strings
Contains(s, sub) ==
    \E i \in 1..(Len(s) - Len(sub) + 1) : SubSeq(s, i, i + Len(sub) - 1) = sub

DigitChars == {"0", "1", "2", "3", "4", "5", "6", "7", "8", "9"}

DigitStr(d) ==
    CASE d = 0 -> "0" [] d = 1 -> "1" [] d = 2 -> "2" [] d = 3 -> "3"
      [] d = 4 -> "4" [] d = 5 -> "5" [] d = 6 -> "6" [] d = 7 -> "7"
      [] d = 8 -> "8" [] d = 9 -> "9"

DigitVal(c) == CHOOSE d \in 0..9 : DigitStr(d) = c

\* str(n) for a non-negative integer
RECURSIVE NatToStr(_)
NatToStr(n) == IF n < 10 THEN DigitStr(n) ELSE NatToStr(n \div 10) \o DigitStr(n % 10)

\* int(s) for a string of decimal digits
RECURSIVE StrToNat(_)
StrToNat(s) ==
    IF s = "" THEN 0
    ELSE StrToNat(SubSeq(s, 1, Len(s) - 1)) * 10 + DigitVal(Char(s, Len(s)))

\* index just past the longest run of characters of class cls that starts at
\* index i (i itself when s[i] is not of the class): a greedy cls* from i
RECURSIVE RunEnd(_, _, _)
RunEnd(s, i, cls) ==
    IF i <= Len(s) /\ Char(s, i) \in cls THEN RunEnd(s, i + 1, cls) ELSE i

(***************************************************************************)
(* releases.py: the version-stage table and the train resolver             *)
(***************************************************************************)
\* a table whose unstable class takes 9 as well, so that x.90, x.95 and x.97
\* match two rows
VERSIONS_overlap ==
    << [label |-> "pre-alpha", adjust |-> 20, minor |-> << {"8"}, {"0"} >>],
       [label |-> "alpha",     adjust |-> 10, minor |-> << {"9"}, {"0"} >>],
       [label |-> "beta",      adjust |-> 5,  minor |-> << {"9"}, {"5"} >>],
       [label |-> "rc",        adjust |-> 3,  minor |-> << {"9"}, {"7"} >>],
       [label |-> "unstable",  adjust |-> 10, minor |-> << {"1", ",", "3", "5", "7", "9"} >>],
       [label |-> "stable",    adjust |-> 0,  minor |-> << {"0", ",", "2", "4", "6"} >>] >>

\* VERSIONS rows: label, adjustment to the minor number (in hundredths: 0.20
\* is 20), and the minor pattern, one set of characters per pattern position.
\* '[1,3,5,7]' is a character class, and the commas are members of it.
VERSIONS ==
    << [label |-> "pre-alpha", adjust |-> 20, minor |-> << {"8"}, {"0"} >>],
       [label |-> "alpha",     adjust |-> 10, minor |-> << {"9"}, {"0"} >>],
       [label |-> "beta",      adjust |-> 5,  minor |-> << {"9"}, {"5"} >>],
       [label |-> "rc",        adjust |-> 3,  minor |-> << {"9"}, {"7"} >>],
       [label |-> "unstable",  adjust |-> 10, minor |-> << {"1", ",", "3", "5", "7"} >>],
       [label |-> "stable",    adjust |-> 0,  minor |-> << {"0", ",", "2", "4", "6"} >>] >>

None == "None"

\* re.compile(fr'([0-9]+\.{minor})') matched at index i of item: the index just
\* past the match, or 0.  [0-9]+ is greedy and must be followed by '.', which
\* is not a digit, so only the longest run of digits can match.
VersionMatchAt(item, i, minor) ==
    LET j == RunEnd(item, i, DigitChars)
        k == j + Len(minor)
    IN  IF /\ j > i
           /\ j <= Len(item) /\ Char(item, j) = "."
           /\ k <= Len(item)
           /\ \A n \in 1..Len(minor) : Char(item, j + n) \in minor[n]
        THEN k + 1 ELSE 0

\* regex.search(item): the leftmost match, as <<start, end>> (end exclusive),
\* or <<0, 0>> when there is none
VersionSearch(item, minor) ==
    LET starts == {i \in 1..Len(item) : VersionMatchAt(item, i, minor) # 0}
    IN  IF starts = {} THEN << 0, 0 >>
        ELSE LET i == CHOOSE a \in starts : \A b \in starts : a <= b
             IN  << i, VersionMatchAt(item, i, minor) >>

\* float(match.group(0)) in hundredths; the match is digits '.' and one or two
\* minor digits
MatchHundredths(m) ==
    LET dot  == RunEnd(m, 1, DigitChars)
        frac == SubSeq(m, dot + 1, Len(m))
    IN  StrToNat(SubSeq(m, 1, dot - 1)) * 100
          + (IF Len(frac) = 1 THEN StrToNat(frac) * 10 ELSE StrToNat(frac))

\* f'{x:.1f}' of a value given in hundredths
FormatOneDecimal(h) ==
    LET tenths == (h + 5) \div 10
    IN  NatToStr(tenths \div 10) \o "." \o DigitStr(tenths % 10)

\* get_train_major_minor walking the table from row n on
RECURSIVE TrainFrom(_, _)
TrainFrom(item, n) ==
    IF n > Len(VERSIONS) THEN None
    ELSE LET se == VersionSearch(item, VERSIONS[n].minor)
         IN  IF se[1] # 0
             THEN FormatOneDecimal(MatchHundredths(SubSeq(item, se[1], se[2] - 1))
                                   + VERSIONS[n].adjust)
             ELSE TrainFrom(item, n + 1)

get_train_major_minor(item) == TrainFrom(item, 1)

(***************************************************************************)
(* releases.py: the file name classifier (the four compiled regexes)       *)
(***************************************************************************)
LowerChars == {"a", "b", "c", "d", "e", "f", "g", "h", "i", "j", "k", "l", "m",
               "n", "o", "p", "q", "r", "s", "t", "u", "v", "w", "x", "y", "z"}

UpperChars == {"A", "B", "C", "D", "E", "F", "G", "H", "I", "J", "K", "L", "M",
               "N", "O", "P", "Q", "R", "S", "T", "U", "V", "W", "X", "Y", "Z"}

\* \w (on the ASCII names the archive holds)
WordChars == LowerChars \cup UpperChars \cup DigitChars \cup {"_"}

\* [0-9a-zA-Z_-]
DeviceChars == WordChars \cup {"-"}

\* [0-9a-fA-F]
HexChars == DigitChars \cup {"a", "b", "c", "d", "e", "f", "A", "B", "C", "D", "E", "F"}

\* \S: every character of the model's alphabet except white space
NonSpaceChars == WordChars \cup {"-", ".", ",", ";", "/", "+", "~"}

LitAt(s, i, lit) == i >= 1 /\ i + Len(lit) - 1 <= Len(s) /\ SubSeq(s, i, i + Len(lit) - 1) = lit

\* (\S*) followed by the literal ext, from index i: the start of ext, or 0.
\* \S* is greedy, so it ends at the last ext that a run of non-space reaches.
UbootEnd(s, i, ext) ==
    LET lim == RunEnd(s, i, NonSpaceChars)
        qs  == {q \in i..lim : LitAt(s, q, ext)}
    IN  IF qs = {} THEN 0 ELSE CHOOSE q \in qs : \A r \in qs : r <= q

NoMatch == [ok |-> FALSE]

\* The four patterns share their head
\*   ^(\w+)-([0-9a-zA-Z_-]+[.]\w+)-(\d+[.]\d+)
\* followed by  -nightly-(\d+)-([0-9a-fA-F]+)  (nightly) or  [.]\d+  (release),
\* then (\S*) and the literal extension.  Every quantifier before (\S*) is
\* followed by a character outside its own class, or by (\S*) which accepts
\* what the quantifier would give back, so the greedy longest run is the only
\* way each of them can match: the search is deterministic.
ParseName(f, nightly, ext) ==
    LET e1 == RunEnd(f, 1, WordChars)                 \* end of distro
        d1 == RunEnd(f, e1 + 1, DeviceChars)          \* end of device name
        d2 == RunEnd(f, d1 + 1, WordChars)            \* end of device arch
        t1 == RunEnd(f, d2 + 1, DigitChars)           \* end of major
        t2 == RunEnd(f, t1 + 1, DigitChars)           \* end of minor
        n0 == t2 + Len("-nightly-")                   \* start of the date
        n1 == RunEnd(f, n0, DigitChars)               \* end of the date
        h1 == RunEnd(f, n1 + 1, HexChars)             \* end of the git hash
        p1 == RunEnd(f, t2 + 1, DigitChars)           \* end of the patch number
        u0 == IF nightly THEN h1 ELSE p1              \* start of (\S*)
        u1 == UbootEnd(f, u0, ext)
        headOk == /\ e1 > 1 /\ LitAt(f, e1, "-")
                  /\ d1 > e1 + 1 /\ LitAt(f, d1, ".")
                  /\ d2 > d1 + 1 /\ LitAt(f, d2, "-")
                  /\ t1 > d2 + 1 /\ LitAt(f, t1, ".")
                  /\ t2 > t1 + 1
        tailOk == IF nightly
                  THEN /\ LitAt(f, t2, "-nightly-")
                       /\ n1 > n0 /\ LitAt(f, n1, "-")
                       /\ h1 > n1 + 1
                  ELSE /\ LitAt(f, t2, ".")
                       /\ p1 > t2 + 1
    IN  IF headOk /\ tailOk /\ u1 # 0
        THEN [ok     |-> TRUE,
              distro |-> SubSeq(f, 1, e1 - 1),
              device |-> SubSeq(f, e1 + 1, d2 - 1),
              train  |-> SubSeq(f, d2 + 1, t2 - 1),
              date   |-> IF nightly THEN SubSeq(f, n0, n1 - 1) ELSE "",
              uboot  |-> SubSeq(f, u0, u1 - 1)]
        ELSE NoMatch

regex_nightly_image(f)   == ParseName(f, TRUE, ".img.gz")
regex_nightly_tarball(f) == ParseName(f, TRUE, ".tar")
regex_release_image(f)   == ParseName(f, FALSE, ".img.gz")
regex_release_tarball(f) == ParseName(f, FALSE, ".tar")

(***************************************************************************)
(* Dictionaries and lists                                                  *)
(***************************************************************************)
EmptyDict == [k \in {} |-> k]

Range(seq) == {seq[i] : i \in 1..Len(seq)}

\* list.remove(x): drops the first occurrence of x
RemoveFirst(seq, x) ==
    IF \E i \in 1..Len(seq) : seq[i] = x
    THEN LET i == CHOOSE a \in 1..Len(seq) :
                      seq[a] = x /\ \A b \in 1..(a - 1) : seq[b] # x
         IN  SubSeq(seq, 1, i - 1) \o SubSeq(seq, i + 1, Len(seq))
    ELSE seq

\* ASCII order of the alphabet, for sorted() on strings
AsciiOrder == " +,-./0123456789;ABCDEFGHIJKLMNOPQRSTUVWXYZ_abcdefghijklmnopqrstuvwxyz~"

Ord(c) == CHOOSE i \in 1..Len(AsciiOrder) : Char(AsciiOrder, i) = c

RECURSIVE StrLess(_, _)
StrLess(a, b) ==
    IF a = "" THEN b # ""
    ELSE IF b = "" THEN FALSE
    ELSE IF Head(a) = Head(b) THEN StrLess(Tail(a), Tail(b))
    ELSE Ord(Head(a)) < Ord(Head(b))

\* sorted(S) for a collection of distinct strings
RECURSIVE sorted(_)
sorted(S) ==
    IF S = {} THEN << >>
    ELSE LET m == CHOOSE a \in S : \A b \in S \ {a} : StrLess(a, b)
         IN  << m >> \o sorted(S \ {m})

(***************************************************************************)
(* releases.py: constants and the file system the run sees                 *)
(***************************************************************************)
DAYS_TO_KEEP_NIGHTLIES == 10

JSON_FILE == "releases.json"

DISTRO_NAME == "LibreELEC"

PRETTYNAME == "^LibreELEC-.*-([0-9]+\\.[0-9]+\\.[0-9]+)"

\* args.input and args.url of the modelled invocation
InDir == "/srv"

Url == "http://x"

SubDir == "/srv/sub"

\* self.display_name (the rows for the devices of the model)
display_name ==
    [b \in {"Generic.x86_64", "RPi2.arm"} |->
        IF b = "RPi2.arm" THEN "Raspberry Pi 2 and 3"
        ELSE "Generic AMD/Intel/NVIDIA (x86_64)"]

\* A file on disk: directory, name, modification time (in days), size in bytes
\* and content.
File(d, n, t, sz, c) == [dirpath |-> d, name |-> n, mtime |-> t, size |-> sz, content |-> c]

TarName     == "LibreELEC-RPi2.arm-11.0.1.tar"
ImageName   == "LibreELEC-RPi2.arm-11.0.1.img.gz"
UbootName   == "LibreELEC-RPi2.arm-11.0.1-rpi.img.gz"
NightlyName == "LibreELEC-RPi2.arm-12.0-nightly-20240101-abc1234.img.gz"
NoPatchName == "LibreELEC-RPi2.arm-11.0.tar"
NoTrainName == "LibreELEC-RPi2.arm-11.8.0.tar"
OtherName   == "LibreELEC-Generic.x86_64-10.95.2.tar"
SidecarName == "LibreELEC-RPi2.arm-11.0.1.tar.sha256"

\* The files a scanned tree is drawn from: a release tarball and its image,
\* the same image name again in a subdirectory, a bootloader-variant image, a
\* nightly, a name without patch number, a version no stage rule matches, a
\* pre-release of another device, and a checksum sidecar.
FileUniverse ==
    { File(InDir,  TarName,     3, 300, "c1"),
      File(InDir,  ImageName,   4, 400, "c2"),
      File(SubDir, ImageName,   5, 500, "c3"),
      File(InDir,  UbootName,   6, 600, "c4"),
      File(InDir,  NightlyName, 10, 700, "c5"),
      File(InDir,  NoPatchName, 7, 800, "c6"),
      File(InDir,  NoTrainName, 8, 900, "c7"),
      File(SubDir, OtherName,   9, 100, "c8"),
      File(InDir,  SidecarName, 3, 90, "aa11 LibreELEC-RPi2.arm-11.0.1.tar") }

(***************************************************************************)
(* releases.py: the digest cache (get_details)                             *)
(***************************************************************************)
\* ChunkedHash.calculate_sha256: the SHA-256 primitive, taken as given; the
\* model only needs distinct contents to have distinct digests
calculate_sha256(content) == "sha256:" \o content

\* digest_contents.split(' ')[0]
FirstToken(s) ==
    LET sp == {i \in 1..Len(s) : Char(s, i) = " "}
    IN  IF sp = {} THEN s
        ELSE SubSeq(s, 1, (CHOOSE i \in sp : \A j \in sp : i <= j) - 1)

\* datetime.fromtimestamp(mtime).isoformat(sep=' ', timespec='seconds'), for a
\* modification time counted in days
isoformat(t) == "day-" \o NatToStr(t) \o " 00:00:00"

OnDisk(files, path, name) == {x \in files : x.dirpath = path /\ x.name = name}

exists(files, path, name) == OnDisk(files, path, name) # {}

StatOf(files, path, name) == CHOOSE x \in OnDisk(files, path, name) : TRUE

CacheKey(train, build, file) == train \o ";" \o build \o ";" \o file

\* The result of one call: the triple returned, whether the call raised (the
\* artifact is gone: open() or getsize() fails), and the primitives it used.
CacheMiss(files, path, key, file) ==
    LET sidecar == file \o ".sha256"
        st      == StatOf(files, path, file)
    IN  IF ~exists(files, path, file)
        THEN [raised |-> TRUE, key |-> key, hit |-> FALSE, sha256 |-> "", size |-> "",
              timestamp |-> "", prims |-> {"exists"}]
        ELSE [raised    |-> FALSE,
              key       |-> key,
              hit       |-> FALSE,
              sha256    |-> IF exists(files, path, sidecar)
                            THEN FirstToken(StatOf(files, path, sidecar).content)
                            ELSE calculate_sha256(st.content),
              size      |-> NatToStr(st.size),
              timestamp |-> isoformat(st.mtime),
              prims     |-> {"exists", "getsize", "getmtime"}
                            \cup (IF exists(files, path, sidecar)
                                  THEN {"read_sidecar"} ELSE {"sha256"})]

CacheHit(cache, key) ==
    [raised    |-> FALSE,
     key       |-> key,
     hit       |-> TRUE,
     sha256    |-> cache[key].sha256,
     size      |-> cache[key].size,
     timestamp |-> cache[key].timestamp,
     prims     |-> {}]

\* get_details without its cache: every call takes the miss path
get_details_uncached(files, cache, path, train, build, file) ==
    CacheMiss(files, path, CacheKey(train, build, file), file)

get_details(files, cache, path, train, build, file) ==
    LET key == CacheKey(train, build, file)
    IN  IF key \notin DOMAIN cache
        THEN CacheMiss(files, path, key, file)
        ELSE CacheHit(cache, key)

(***************************************************************************)
(* releases.py: UpdateFile, the directory walk (lines 232-315)             *)
(***************************************************************************)
\* the element appended to list_of_files:
\* [f, distro_train, fname_device, fname_uboot, dirpath]
ListEntry(fr, parsed) ==
    [f       |-> fr.name,
     train   |-> parsed.distro \o "-" \o get_train_major_minor(parsed.train),
     device  |-> parsed.device,
     uboot   |-> removeprefix(parsed.uboot, "-"),
     dirpath |-> fr.dirpath]

\* "tarball", "image" or "ignored": the suffix tests of lines 249-291
Candidate(f) ==
    IF ~startswith(f, DISTRO_NAME \o "-") THEN "ignored"
    ELSE IF endswith(f, ".tar") /\ ~endswith(f, "-noobs.tar") THEN "tarball"
    ELSE IF endswith(f, ".img.gz") THEN "image"
    ELSE "ignored"

\* the age test with the boundary on the other side: a nightly exactly
\* DAYS_TO_KEEP_NIGHTLIES old is passed over as well
IsOldNightly_inclusive(fr, t, all) ==
    /\ Contains(fr.name, "nightly")
    /\ ~all
    /\ fr.mtime <= t - DAYS_TO_KEEP_NIGHTLIES

\* lines 253 and 272: an old nightly is passed over
IsOldNightly(fr, t, all) ==
    /\ Contains(fr.name, "nightly")
    /\ ~all
    /\ fr.mtime < t - DAYS_TO_KEEP_NIGHTLIES

\* regex.search(f) of the pattern the file's suffix and kind select
ParsedName(f) ==
    IF Candidate(f) = "tarball"
    THEN IF Contains(f, "nightly") THEN regex_nightly_tarball(f) ELSE regex_release_tarball(f)
    ELSE IF Contains(f, "nightly") THEN regex_nightly_image(f) ELSE regex_release_image(f)

SkippedDir(dirpath) == Contains(dirpath, "archive") \/ Contains(dirpath, "upload")

EmptyScan ==
    [raised |-> FALSE, list_of_files |-> << >>, list_of_filenames |-> << >>,
     releases |-> << >>, builds |-> << >>]

\* One iteration of `for f in filenames`.  regex.search returns None for a
\* name that does not match, it does not raise: the try/except around it
\* catches nothing, and parsed_fname.group(1) on line 294 raises
\* AttributeError, which nothing catches.
ScanFile(acc, fr, t, all) ==
    IF acc.raised \/ SkippedDir(fr.dirpath) \/ Candidate(fr.name) = "ignored"
       \/ IsOldNightly(fr, t, all)
    THEN acc
    ELSE LET parsed == ParsedName(fr.name)
             e      == ListEntry(fr, parsed)
         IN  IF ~parsed.ok THEN [acc EXCEPT !.raised = TRUE]
             ELSE [raised            |-> FALSE,
                   list_of_files     |-> Append(acc.list_of_files, e),
                   list_of_filenames |-> Append(acc.list_of_filenames, e.f),
                   releases          |-> IF e.train \in Range(acc.releases) THEN acc.releases
                                         ELSE Append(acc.releases, e.train),
                   builds            |-> IF e.device \in Range(acc.builds) THEN acc.builds
                                         ELSE Append(acc.builds, e.device)]

RECURSIVE ScanFrom(_, _, _, _, _)
ScanFrom(w, i, acc, t, all) ==
    IF i > Len(w) THEN acc ELSE ScanFrom(w, i + 1, ScanFile(acc, w[i], t, all), t, all)

\* the walk of lines 239-315 over the listing w
WalkTree(w, t, all) == ScanFrom(w, 1, EmptyScan, t, all)

(***************************************************************************)
(* State                                                                   *)
(***************************************************************************)
VARIABLES
    walk,           \* the files in the order os.walk lists them
    disk,           \* the files on disk
    now,            \* datetime.now(), in days
    args_all,       \* args.all: include every nightly
    manifest_file,  \* releases.json on disk
    pc,             \* where the run is
    oldhash,        \* self.oldhash, the digest cache
    scan,           \* list_of_files, list_of_filenames, releases, builds after the walk
    update_json,    \* self.update_json
    calls,          \* the get_details calls made, with the primitives each used
    item,           \* the raw version handed to get_train_major_minor
    train_result,   \* what get_train_major_minor returned
    run,            \* which run of the script over the tree this is: 1, 2, ...
    now_secs,       \* datetime.now(): the seconds since midnight
    args_keep,      \* prune-archive.py: int(args.keep)
    args_delete,    \* prune-archive.py: args.delete
    args_retained,  \* prune-archive.py: args.retained
    args_verbose,   \* prune-archive.py: args.verbose
    kept_filepaths, \* prune-archive.py: the files selected for keeping
    purge_filepaths,\* prune-archive.py: the files selected for purging
    stdout          \* prune-archive.py: the lines printed

vars == << walk, disk, now, args_all, manifest_file, pc, oldhash, scan, update_json,
           calls, item, train_result, run, now_secs, args_keep, args_delete,
           args_retained, args_verbose, kept_filepaths, purge_filepaths, stdout >>

\* what prune-archive.py reads and writes, and releases.py does not
pruner_vars ==
    << now_secs, args_keep, args_delete, args_retained, args_verbose, kept_filepaths,
       purge_filepaths, stdout >>

\* prune-archive.py is not running
PrunerIdle ==
    /\ now_secs = 0
    /\ args_keep = 0
    /\ args_delete = FALSE
    /\ args_retained = FALSE
    /\ args_verbose = FALSE
    /\ kept_filepaths = << >>
    /\ purge_filepaths = << >>
    /\ stdout = << >>

(***************************************************************************)
(* releases.py: UpdateFile, the grouping (lines 317-410)                   *)
(***************************************************************************)
\* `x in release_file`: release_file is the five-element list
InList(x, rf) == x \in {rf.f, rf.train, rf.device, rf.uboot, rf.dirpath}

\* one slot of a release entry
Slot(rf, d) ==
    [name      |-> rf.f,
     sha256    |-> d.sha256,
     size      |-> d.size,
     timestamp |-> d.timestamp,
     subpath   |-> removeprefix(rf.dirpath, InDir \o "/")]

Details(rf, train, build) == get_details(disk, oldhash, rf.dirpath, train, build, rf.f)

\* one get_details call as the grouping made it: the arguments, the triple it
\* returned and the primitives it used
CallOf(rf, d) ==
    [key |-> d.key, path |-> rf.dirpath, file |-> rf.f, hit |-> d.hit, prims |-> d.prims,
     sha256 |-> d.sha256, size |-> d.size, timestamp |-> d.timestamp]

\* list_of_files.remove(e); list_of_filenames.remove(e[0])
Drop(st, e) ==
    [st EXCEPT !.lof = RemoveFirst(@, e), !.lofn = RemoveFirst(@, e.f)]

\* `for x in list(list_of_files): if <x matches>: get_details(x); <use the
\* slot>; remove x`, over the matching elements cands of the copy, in order.
\* g.slots collects the slots in the order they were made.
RECURSIVE GrabFrom(_, _, _, _, _)
GrabFrom(cands, i, g, train, build) ==
    IF i > Len(cands) \/ g.st.raised THEN g
    ELSE LET d  == Details(cands[i], train, build)
             s0 == [g.st EXCEPT !.calls = @ \cup {CallOf(cands[i], d)}]
         IN  GrabFrom(cands, i + 1,
                      IF d.raised
                      THEN [st |-> [s0 EXCEPT !.raised = TRUE], slots |-> g.slots]
                      ELSE [st |-> Drop(s0, cands[i]),
                            slots |-> Append(g.slots, Slot(cands[i], d))],
                      train, build)

\* entries[entry_position] = entry; entry_position is len(entries)
Store(st, entry) == IF st.raised THEN st ELSE [st EXCEPT !.entries = Append(@, entry)]

\* the tarball branch with the else of lines 368-369 (commented out in the
\* source) put back: a tarball without an image gets an image slot of empty
\* strings
TarballEntry_placeholder(own, st1, base, train, build) ==
    LET want  == base \o ".img.gz"
        cands == IF want \in Range(st1.lofn)
                 THEN SelectSeq(st1.lof, LAMBDA x : x.f = want) ELSE << >>
        g     == GrabFrom(cands, 1, [st |-> st1, slots |-> << >>], train, build)
        blank == [name |-> "", sha256 |-> "", size |-> "", timestamp |-> "", subpath |-> ""]
    IN  Store(g.st, IF g.slots = << >> THEN ("file" :> own) @@ ("image" :> blank)
                    ELSE ("file" :> own) @@ ("image" :> g.slots[Len(g.slots)]))

\* lines 356-367: the tarball, then every listed file named <base>.img.gz;
\* each one found is assigned to entry['image'], so the last one stays
TarballEntry(own, st1, base, train, build) ==
    LET want  == base \o ".img.gz"
        cands == IF want \in Range(st1.lofn)
                 THEN SelectSeq(st1.lof, LAMBDA x : x.f = want) ELSE << >>
        g     == GrabFrom(cands, 1, [st |-> st1, slots |-> << >>], train, build)
    IN  Store(g.st, IF g.slots = << >> THEN ("file" :> own)
                    ELSE ("file" :> own) @@ ("image" :> g.slots[Len(g.slots)]))

\* lines 371-386: the variant image, then every listed file whose name starts
\* with the base less its '-<uboot>' suffix
UbootEntry(own, st1, rf, base, train, build) ==
    LET prefix == removesuffix(base, "-" \o rf.uboot)
        cands  == IF \E it \in Range(st1.lofn) : startswith(it, prefix)
                  THEN SelectSeq(st1.lof, LAMBDA x : startswith(x.f, prefix)) ELSE << >>
        g      == GrabFrom(cands, 1, [st |-> st1, slots |-> << >>], train, build)
    IN  Store(g.st, ("uboot" :> (<< own >> \o g.slots)))

\* lines 388-399: the plain image, then every listed file named <base>.tar
ImageEntry(own, st1, base, train, build) ==
    LET want  == base \o ".tar"
        cands == IF want \in Range(st1.lofn)
                 THEN SelectSeq(st1.lof, LAMBDA x : x.f = want) ELSE << >>
        g     == GrabFrom(cands, 1, [st |-> st1, slots |-> << >>], train, build)
    IN  Store(g.st, IF g.slots = << >> THEN ("image" :> own)
                    ELSE ("image" :> own) @@ ("file" :> g.slots[Len(g.slots)]))

\* lines 350-403 for one release_file of the pass
ProcessFile(train, build, rf, st) ==
    LET base == removesuffix(removesuffix(rf.f, ".tar"), ".img.gz")
        d    == Details(rf, train, build)
        st0  == [st EXCEPT !.calls = @ \cup {CallOf(rf, d)}]
        own  == Slot(rf, d)
        st1  == Drop(st0, rf)
    IN  IF d.raised THEN [st0 EXCEPT !.raised = TRUE]
        ELSE IF endswith(rf.f, ".tar") THEN TarballEntry(own, st1, base, train, build)
        ELSE IF rf.uboot # "" THEN UbootEntry(own, st1, rf, base, train, build)
        ELSE IF endswith(rf.f, ".img.gz") THEN ImageEntry(own, st1, base, train, build)
        ELSE Store(st0, EmptyDict)

\* lines 339-403: `for release_file in list(list_of_files)` over the copy
RECURSIVE PassFrom(_, _, _, _, _)
PassFrom(train, build, copy, i, st) ==
    IF i > Len(copy) \/ st.raised THEN st
    ELSE IF copy[i] \in Range(st.lof) /\ InList(train, copy[i]) /\ InList(build, copy[i])
    THEN PassFrom(train, build, copy, i + 1, ProcessFile(train, build, copy[i], st))
    ELSE PassFrom(train, build, copy, i + 1, st)

\* displayName of lines 407-410
DisplayName(build) == IF build \in DOMAIN display_name THEN display_name[build] ELSE build

\* lines 336-410: the passes, one per (train, build), in nested order
RECURSIVE GroupFrom(_, _, _, _)
\* the passes without the test of line 406: a (train, build) pair with no
\* entry gets a device key with an empty releases collection
GroupFrom_keepempty(trains, builds, k, gs) ==
    IF k > Len(trains) * Len(builds) \/ gs.raised THEN gs
    ELSE LET train == trains[((k - 1) \div Len(builds)) + 1]
             build == builds[((k - 1) % Len(builds)) + 1]
             st    == PassFrom(train, build, gs.lof, 1,
                               [lof |-> gs.lof, lofn |-> gs.lofn, entries |-> << >>,
                                calls |-> gs.calls, raised |-> FALSE])
         IN  GroupFrom(trains, builds, k + 1,
                 [lof    |-> st.lof,
                  lofn   |-> st.lofn,
                  calls  |-> st.calls,
                  raised |-> st.raised,
                  json   |-> IF ~st.raised
                             THEN [gs.json EXCEPT ![train].project =
                                      (build :> [displayName |-> DisplayName(build),
                                                 releases    |-> st.entries]) @@ @]
                             ELSE gs.json])

GroupFrom(trains, builds, k, gs) ==
    IF k > Len(trains) * Len(builds) \/ gs.raised THEN gs
    ELSE LET train == trains[((k - 1) \div Len(builds)) + 1]
             build == builds[((k - 1) % Len(builds)) + 1]
             st    == PassFrom(train, build, gs.lof, 1,
                               [lof |-> gs.lof, lofn |-> gs.lofn, entries |-> << >>,
                                calls |-> gs.calls, raised |-> FALSE])
         IN  GroupFrom(trains, builds, k + 1,
                 [lof    |-> st.lof,
                  lofn   |-> st.lofn,
                  calls  |-> st.calls,
                  raised |-> st.raised,
                  json   |-> IF Len(st.entries) > 0 /\ ~st.raised
                             THEN [gs.json EXCEPT ![train].project =
                                      (build :> [displayName |-> DisplayName(build),
                                                 releases    |-> st.entries]) @@ @]
                             ELSE gs.json])

\* lines 317-410 on the result sc of the walk, starting from the manifest json
GroupAll(sc, json) ==
    LET trains == sorted(Range(sc.releases))
        builds == sorted(Range(sc.builds))
        fresh  == [t \in Range(trains) |->
                      [url |-> Url \o "/", prettyname_regex |-> PRETTYNAME,
                       project |-> EmptyDict]]
    IN  GroupFrom(trains, builds, 1,
                  [lof |-> sc.list_of_files, lofn |-> sc.list_of_filenames,
                   calls |-> {}, raised |-> FALSE, json |-> fresh @@ json])

(***************************************************************************)
(* releases.py: ReadFile and WriteFile                                     *)
(***************************************************************************)
\* releases.json is absent, unreadable or not JSON ("invalid"), or holds a JSON
\* document: an object keyed by train; a train object may lack "project", a
\* build object may lack "releases"; "releases" is an object keyed "0", "1",
\* ... (kind "map", items in that order) or an array (kind "array"); an entry
\* has some of "file", "image" (objects) and "uboot" (an array of objects); a
\* slot object has some of name, sha256, size, timestamp, subpath.
AbsentFile == [kind |-> "absent"]

InvalidFile == [kind |-> "invalid"]

JsonFile(doc) == [kind |-> "json", doc |-> doc]

\* data["name"], data['sha256'], data['size'], data['timestamp'] all succeed
Complete(data) == {"name", "sha256", "size", "timestamp"} \subseteq DOMAIN data

\* lines 440-445: the uboot loop stops at the first record that raises KeyError
RECURSIVE UbootPrefix(_, _)
UbootPrefix(list, i) ==
    IF i > Len(list) \/ ~Complete(list[i]) THEN << >>
    ELSE << list[i] >> \o UbootPrefix(list, i + 1)

\* lines 425-445: the records of one release entry that reach the cache, in
\* the order they are stored; a KeyError (slot absent, field absent) is passed
EntryRecords(entry) ==
    (IF "file" \in DOMAIN entry /\ Complete(entry.file) THEN << entry.file >> ELSE << >>)
    \o (IF "image" \in DOMAIN entry /\ Complete(entry.image) THEN << entry.image >> ELSE << >>)
    \o (IF "uboot" \in DOMAIN entry THEN UbootPrefix(entry.uboot, 1) ELSE << >>)

RECURSIVE ReleaseRecords(_, _)
ReleaseRecords(items, i) ==
    IF i > Len(items) THEN << >>
    ELSE EntryRecords(items[i]) \o ReleaseRecords(items, i + 1)

\* the cache entries one (train, build) contributes; a later record of the
\* same name overwrites an earlier one
BuildCache(doc, train, build) ==
    LET recs == ReleaseRecords(doc[train].project[build].releases.items, 1)
    IN  [k \in {CacheKey(train, build, recs[i].name) : i \in 1..Len(recs)} |->
            LET i == CHOOSE a \in 1..Len(recs) :
                        /\ CacheKey(train, build, recs[a].name) = k
                        /\ \A b \in (a + 1)..Len(recs) : CacheKey(train, build, recs[b].name) # k
            IN  [sha256 |-> recs[i].sha256, size |-> recs[i].size,
                 timestamp |-> recs[i].timestamp]]

\* an exception other than the KeyErrors passed above: a train without
\* "project" or a build without "releases" (KeyError outside the inner try),
\* or "releases" being a non-empty array (TypeError: list indices)
Raises(doc) ==
    \E t \in DOMAIN doc :
        \/ "project" \notin DOMAIN doc[t]
        \/ \E b \in DOMAIN doc[t].project :
              \/ "releases" \notin DOMAIN doc[t].project[b]
              \/ /\ doc[t].project[b].releases.kind = "array"
                 /\ Len(doc[t].project[b].releases.items) > 0

Seeded(doc) ==
    LET tb   == UNION {{<< t, b >> : b \in DOMAIN doc[t].project} : t \in DOMAIN doc}
        keys == UNION {DOMAIN BuildCache(doc, p[1], p[2]) : p \in tb}
    IN  [k \in keys |->
            LET p == CHOOSE q \in tb : k \in DOMAIN BuildCache(doc, q[1], q[2])
            IN  BuildCache(doc, p[1], p[2])[k]]

\* ReadFile (lines 413-448): self.oldhash afterwards
SeedCache(mf) ==
    IF mf.kind = "absent" THEN EmptyDict
    ELSE IF mf.kind = "invalid" THEN EmptyDict
    ELSE IF Raises(mf.doc) THEN EmptyDict
    ELSE Seeded(mf.doc)

\* json.dumps(self.update_json, indent=2, sort_keys=True): the entries dict,
\* keyed by position, becomes an object keyed "0", "1", ...
JsonDump(json) ==
    [t \in DOMAIN json |->
        [url              |-> json[t].url,
         prettyname_regex |-> json[t].prettyname_regex,
         project          |-> [b \in DOMAIN json[t].project |->
                                  [displayName |-> json[t].project[b].displayName,
                                   releases    |-> [kind  |-> "map",
                                                    items |-> json[t].project[b].releases]]]]]

(***************************************************************************)
(* The manifest builder: ReleaseFile(args).UpdateAll()                     *)
(***************************************************************************)
MaxFiles == 3

\* os.walk is top-down: the files of the input directory come before those
\* of its subdirectory; within a directory the order is arbitrary
ValidWalk(w) ==
    /\ \A i, j \in 1..Len(w) : i # j => w[i] # w[j]
    /\ \A i, j \in 1..Len(w) : i < j => ~(w[i].dirpath = SubDir /\ w[j].dirpath = InDir)

Walks == {w \in UNION {[1..n -> FileUniverse] : n \in 0..MaxFiles} : ValidWalk(w)}

\* the nightly of the tree is 9, 10 or 11 days old
Nows == {19, 20, 21}

\* a manifest an earlier run wrote: the release tarball with the digest, size
\* and time it had then, the release image as it is in the input directory,
\* and a train and device no longer in the tree
PrevGood ==
    JsonFile(
      ("LibreELEC-11.0" :>
          [url |-> Url \o "/", prettyname_regex |-> PRETTYNAME,
           project |-> ("RPi2.arm" :>
              [displayName |-> "Raspberry Pi 2 and 3",
               releases |-> [kind |-> "map", items |-> <<
                  ("file" :> [name |-> TarName, sha256 |-> "sha256:c0", size |-> "299",
                              timestamp |-> "day-2 00:00:00", subpath |-> InDir])
                  @@
                  ("image" :> [name |-> ImageName, sha256 |-> "sha256:c2", size |-> "400",
                               timestamp |-> "day-4 00:00:00", subpath |-> InDir]) >>]])])
      @@
      ("LibreELEC-9.2" :>
          [url |-> Url \o "/", prettyname_regex |-> PRETTYNAME,
           project |-> ("Generic.x86_64" :>
              [displayName |-> "Generic AMD/Intel/NVIDIA (x86_64)",
               releases |-> [kind |-> "map", items |-> <<
                  ("image" :> [name |-> "LibreELEC-Generic.x86_64-9.2.1.img.gz",
                               sha256 |-> "sha256:c9", size |-> "99",
                               timestamp |-> "day-1 00:00:00", subpath |-> InDir]) >>]])]))

PrevManifests == {AbsentFile, PrevGood}

Init ==
    /\ walk \in Walks
    /\ disk = Range(walk)
    /\ now \in Nows
    /\ args_all \in BOOLEAN
    /\ manifest_file \in PrevManifests
    /\ pc = "ReadFile"
    /\ oldhash = EmptyDict
    /\ scan = EmptyScan
    /\ update_json = EmptyDict
    /\ calls = {}
    /\ item = ""
    /\ train_result = ""
    /\ run = 1
    /\ PrunerIdle

\* a ReadFile that opens releases.json for update and leaves it empty
ReadFile_consuming ==
    /\ pc = "ReadFile"
    /\ oldhash' = SeedCache(manifest_file)
    /\ manifest_file' = InvalidFile
    /\ pc' = "UpdateFile"
    /\ UNCHANGED << walk, disk, now, args_all, scan, update_json, calls,
                    item, train_result, run >>
    /\ UNCHANGED pruner_vars

\* self.ReadFile()
ReadFile ==
    /\ pc = "ReadFile"
    /\ oldhash' = SeedCache(manifest_file)
    /\ pc' = "UpdateFile"
    /\ UNCHANGED << walk, disk, now, args_all, manifest_file, scan, update_json, calls,
                    item, train_result, run >>
    /\ UNCHANGED pruner_vars

\* self.UpdateFile(): the walk, then the grouping of what the walk listed; an
\* uncaught exception ends the process and nothing is written
UpdateFile ==
    /\ pc = "UpdateFile"
    /\ scan' = WalkTree(walk, now, args_all)
    /\ IF scan'.raised
       THEN pc' = "failed" /\ UNCHANGED << update_json, calls >>
       ELSE \E g \in {GroupAll(scan', update_json)} :
               /\ update_json' = g.json
               /\ calls' = g.calls
               /\ pc' = IF g.raised THEN "failed" ELSE "WriteFile"
    /\ UNCHANGED << walk, disk, now, args_all, manifest_file, oldhash, item, train_result,
                    run >>
    /\ UNCHANGED pruner_vars

\* self.WriteFile()
WriteFile ==
    /\ pc = "WriteFile"
    /\ manifest_file' = JsonFile(JsonDump(update_json))
    /\ pc' = "done"
    /\ UNCHANGED << walk, disk, now, args_all, oldhash, scan, update_json, calls,
                    item, train_result, run >>
    /\ UNCHANGED pruner_vars

Next == ReadFile \/ UpdateFile \/ WriteFile

Spec == Init /\ [][Next]_vars

(***************************************************************************)
(* The script run again over the same tree                                 *)
(***************************************************************************)
MaxRuns == 2

\* the script is started again: a new ReleaseFile (lines 186, 414), the tree,
\* the clock and the arguments as they were, releases.json as the run before
\* wrote it
Rerun ==
    /\ pc = "done"
    /\ run < MaxRuns
    /\ run' = run + 1
    /\ pc' = "ReadFile"
    /\ oldhash' = EmptyDict
    /\ scan' = EmptyScan
    /\ update_json' = EmptyDict
    /\ calls' = {}
    /\ UNCHANGED << walk, disk, now, args_all, manifest_file, item, train_result >>
    /\ UNCHANGED pruner_vars

NextAgain == Next \/ Rerun

SpecAgain == Init /\ [][NextAgain]_vars

(***************************************************************************)
(* Files that leave the tree while the script runs                         *)
(***************************************************************************)
MaxGone == 1

\* another process removes a file the walk lists before UpdateFile comes to
\* read its digest, size and time
Vanish ==
    /\ pc = "UpdateFile"
    /\ Cardinality(Range(walk) \ disk) < MaxGone
    /\ \E fr \in disk : disk' = disk \ {fr}
    /\ UNCHANGED << walk, now, args_all, manifest_file, pc, oldhash, scan, update_json,
                    calls, item, train_result, run >>
    /\ UNCHANGED pruner_vars

NextVanish == Next \/ Vanish

SpecVanish == Init /\ [][NextVanish]_vars

(***************************************************************************)
(* get_train_major_minor on its own: every raw version major.minor         *)
(***************************************************************************)
MaxMajor == 12

\* the minors of one or two decimal digits
Minors ==
    {DigitStr(d) : d \in 0..9} \cup {DigitStr(a) \o DigitStr(b) : a, b \in 0..9}

Version(x, minor) == NatToStr(x) \o "." \o minor

RawVersions == {Version(x, m) : x \in 0..MaxMajor, m \in Minors}

InitTrain ==
    /\ item \in RawVersions
    /\ train_result = ""
    /\ run = 1
    /\ PrunerIdle
    /\ pc = "resolve"
    /\ walk = << >>
    /\ disk = {}
    /\ now = 0
    /\ args_all = FALSE
    /\ manifest_file = AbsentFile
    /\ oldhash = EmptyDict
    /\ scan = EmptyScan
    /\ update_json = EmptyDict
    /\ calls = {}

\* self.get_train_major_minor(fname_train)
Resolve ==
    /\ pc = "resolve"
    /\ train_result' = get_train_major_minor(item)
    /\ pc' = "resolved"
    /\ UNCHANGED << walk, disk, now, args_all, manifest_file, oldhash, scan, update_json,
                    calls, item, run >>
    /\ UNCHANGED pruner_vars

NextTrain == Resolve

SpecTrain == InitTrain /\ [][NextTrain]_vars

(***************************************************************************)
(* ReadFile on its own: previous manifests, well-formed and not            *)
(***************************************************************************)
MaxPrevEntries == 2

Fields == {"name", "sha256", "size", "timestamp"}

\* a slot object as an earlier run wrote it
GoodRecord(name) ==
    [name |-> name, sha256 |-> "sha256:old", size |-> "1",
     timestamp |-> "day-1 00:00:00", subpath |-> InDir]

\* the object r with the key k missing
Without(r, k) == [x \in DOMAIN r \ {k} |-> r[x]]

FileRecords == {GoodRecord(TarName)} \cup {Without(GoodRecord(TarName), k) : k \in Fields}

\* release entries of a previous manifest: sound ones, ones with a record
\* that lacks a field, and the empty object
PrevEntries ==
    {("file" :> f) : f \in FileRecords}
    \cup {("file" :> f) @@ ("image" :> GoodRecord(ImageName)) : f \in FileRecords}
    \cup {("image" :> Without(GoodRecord(ImageName), k)) : k \in Fields}
    \cup {("uboot" :> << GoodRecord(UbootName), GoodRecord(ImageName) >>),
          ("uboot" :> << GoodRecord(UbootName), Without(GoodRecord(ImageName), "size"),
                         GoodRecord(TarName) >>),
          ("uboot" :> << Without(GoodRecord(UbootName), "name"), GoodRecord(ImageName) >>),
          EmptyDict}

PrevItems == UNION {[1..n -> PrevEntries] : n \in 0..MaxPrevEntries}

TrainObject(project) ==
    [url |-> Url \o "/", prettyname_regex |-> PRETTYNAME, project |-> project]

PrevDoc(kind, items) ==
    "LibreELEC-11.0" :>
        TrainObject("RPi2.arm" :> [displayName |-> "Raspberry Pi 2 and 3",
                                   releases |-> [kind |-> kind, items |-> items]])

\* a train object without "project", after a sound train; a build object
\* without "releases", after a sound train
NoProjectDoc ==
    PrevDoc("map", << ("file" :> GoodRecord(TarName)) >>)
    @@ ("LibreELEC-12.0" :> [url |-> Url \o "/", prettyname_regex |-> PRETTYNAME])

NoReleasesDoc ==
    PrevDoc("map", << ("file" :> GoodRecord(TarName)) >>)
    @@ ("LibreELEC-12.0" :>
           TrainObject("RPi2.arm" :> [displayName |-> "Raspberry Pi 2 and 3"]))

ReadManifests ==
    {AbsentFile, InvalidFile, JsonFile(NoProjectDoc), JsonFile(NoReleasesDoc), PrevGood}
    \cup {JsonFile(PrevDoc(k, items)) : k \in {"map", "array"}, items \in PrevItems}

InitRead ==
    /\ manifest_file \in ReadManifests
    /\ pc = "ReadFile"
    /\ walk = << >>
    /\ disk = {}
    /\ now = 0
    /\ args_all = FALSE
    /\ oldhash = EmptyDict
    /\ scan = EmptyScan
    /\ update_json = EmptyDict
    /\ calls = {}
    /\ item = ""
    /\ train_result = ""
    /\ run = 1
    /\ PrunerIdle

NextRead == ReadFile

SpecRead == InitRead /\ [][NextRead]_vars

(***************************************************************************)
(* prune-archive.py: dates                                                 *)
(***************************************************************************)
IsLeap(y) == y % 4 = 0 /\ (y % 100 # 0 \/ y % 400 = 0)

DaysInMonth(y, m) ==
    IF m = 2 THEN (IF IsLeap(y) THEN 29 ELSE 28)
    ELSE IF m \in {4, 6, 9, 11} THEN 30 ELSE 31

RECURSIVE DaysBeforeMonth(_, _)
DaysBeforeMonth(y, m) ==
    IF m = 1 THEN 0 ELSE DaysBeforeMonth(y, m - 1) + DaysInMonth(y, m - 1)

\* date(y, m, d).toordinal(): 1 is 0001-01-01, a Monday
toordinal(y, m, d) ==
    365 * (y - 1) + ((y - 1) \div 4) - ((y - 1) \div 100) + ((y - 1) \div 400)
    + DaysBeforeMonth(y, m) + d

\* the ordinal of the Monday that starts ISO week 1 of the year
isoweek1monday(year) ==
    LET firstday     == toordinal(year, 1, 1)
        firstweekday == (firstday + 6) % 7
        monday       == firstday - firstweekday
    IN  IF firstweekday > 3 THEN monday + 7 ELSE monday

\* date.isocalendar(): the ISO year and week of the day of that ordinal in
\* the calendar year `year`
isocalendar(year, ord) ==
    IF ord < isoweek1monday(year)
    THEN [year |-> year - 1, week |-> ((ord - isoweek1monday(year - 1)) \div 7) + 1]
    ELSE IF (ord - isoweek1monday(year)) \div 7 >= 52 /\ ord >= isoweek1monday(year + 1)
    THEN [year |-> year + 1, week |-> 1]
    ELSE [year |-> year, week |-> ((ord - isoweek1monday(year)) \div 7) + 1]

\* datetime.fromisoformat(f'{d[0:4]}-{d[4:6]}-{d[6:8]}') for a string d of
\* decimal digits: the slices are short when d is, and then, or when the
\* numbers are no date, fromisoformat raises ValueError
fromisoformat(d) ==
    IF Len(d) < 8 THEN [raised |-> TRUE]
    ELSE LET y  == StrToNat(SubSeq(d, 1, 4))
             m  == StrToNat(SubSeq(d, 5, 6))
             dd == StrToNat(SubSeq(d, 7, 8))
         IN  IF y < 1 \/ m < 1 \/ m > 12 \/ dd < 1 \/ dd > DaysInMonth(y, m)
             THEN [raised |-> TRUE]
             ELSE [raised |-> FALSE, year |-> y, ord |-> toordinal(y, m, dd)]

(***************************************************************************)
(* prune-archive.py: ManageArchive.PruneArchive                            *)
(***************************************************************************)
lchop(s, prefix) ==
    IF prefix # "" /\ startswith(s, prefix) THEN SubSeq(s, Len(prefix) + 1, Len(s)) ELSE s

\* self._regex_nightly_image of prune-archive.py: the nightly image pattern
\* of releases.py with the date and the git hash captured as well
prune_regex_nightly_image(f) == ParseName(f, TRUE, ".img.gz")

\* lines 68-70: the files the pruner looks at
PruneCandidate(f) ==
    startswith(f, DISTRO_NAME \o "-") /\ endswith(f, ".img.gz") /\ Contains(f, "nightly")

\* the element appended to list_of_files:
\* [f, fname_device, fname_date, fname_uboot, dirpath]
PruneEntry(fr, parsed) ==
    [f       |-> fr.name,
     device  |-> parsed.device,
     date    |-> parsed.date,
     uboot   |-> IF parsed.uboot # "" THEN lchop(parsed.uboot, "-") ELSE None,
     dirpath |-> fr.dirpath]

EmptyPruneScan == [raised |-> FALSE, list_of_files |-> << >>, builds |-> << >>, out |-> << >>]

\* one iteration of `for f in filenames` (lines 67-100); as in releases.py,
\* search returns None for a name that does not match and
\* parsed_fname.group(1) on line 82 raises AttributeError
PruneScanFile(acc, fr, verbose) ==
    IF acc.raised THEN acc
    ELSE IF ~PruneCandidate(fr.name)
    THEN IF verbose THEN [acc EXCEPT !.out = Append(@, "Ignored file: " \o fr.name)] ELSE acc
    ELSE LET parsed == prune_regex_nightly_image(fr.name)
             e      == PruneEntry(fr, parsed)
         IN  IF ~parsed.ok THEN [acc EXCEPT !.raised = TRUE]
             ELSE [acc EXCEPT !.list_of_files = Append(@, e),
                              !.builds = IF e.device \in Range(@) THEN @
                                         ELSE Append(@, e.device)]

RECURSIVE PruneScanFrom(_, _, _, _)
PruneScanFrom(w, i, acc, verbose) ==
    IF i > Len(w) THEN acc
    ELSE PruneScanFrom(w, i + 1, PruneScanFile(acc, w[i], verbose), verbose)

\* list.sort(key=lambda data: <date>): stable, by string comparison
RECURSIVE SortedByDate(_)
SortedByDate(seq) ==
    IF seq = << >> THEN << >>
    ELSE LET i == CHOOSE a \in 1..Len(seq) :
                      /\ \A b \in 1..Len(seq) : ~StrLess(seq[b].date, seq[a].date)
                      /\ \A b \in 1..(a - 1) : seq[b].date # seq[a].date
         IN  << seq[i] >> \o SortedByDate(SubSeq(seq, 1, i - 1) \o SubSeq(seq, i + 1, Len(seq)))

\* `build in release_file`: release_file is the five-element list
InPruneList(x, rf) == x \in {rf.f, rf.device, rf.date, rf.uboot, rf.dirpath}

\* a selection that has no retention window
Older_nocutoff(ord, t, secs, keep) == TRUE

\* file_datetime < purge_date, purge_date being now less `keep` days
Older(ord, t, secs, keep) == ord < t - keep \/ (ord = t - keep /\ secs > 0)

\* lines 122-142 for one release_file of the pass of `build`
SelectFile(files, build, rf, t, secs, keep, st) ==
    LET file_device == IF rf.uboot \notin {None, ""} THEN rf.uboot ELSE build
        dt          == fromisoformat(rf.date)
        ic          == isocalendar(dt.year, dt.ord)
        week        == NatToStr(ic.year) \o "-" \o NatToStr(ic.week)
        key         == file_device \o ";" \o week
        details     == [path |-> rf.dirpath \o "/" \o rf.f,
                        date |-> rf.date,
                        size |-> StatOf(files, rf.dirpath, rf.f).size,
                        week |-> week]
    IN  IF ~InPruneList(build, rf) THEN st
        ELSE IF dt.raised THEN [st EXCEPT !.raised = TRUE]
        ELSE IF ~Older(dt.ord, t, secs, keep) THEN st
        ELSE IF ~exists(files, rf.dirpath, rf.f) THEN [st EXCEPT !.raised = TRUE]
        ELSE IF key \notin st.release_weeks
        THEN [st EXCEPT !.release_weeks = @ \cup {key},
                        !.kept_filesize = @ + details.size,
                        !.kept = Append(@, details)]
        ELSE [st EXCEPT !.purge_filesize = @ + details.size,
                        !.purge = Append(@, details)]

\* lines 118-142: for build in builds, for release_file in list_of_files;
\* release_weeks starts empty for each build
RECURSIVE SelectFrom(_, _, _, _, _, _, _, _)
SelectFrom(files, builds, lof, k, t, secs, keep, st) ==
    IF k > Len(builds) * Len(lof) \/ st.raised THEN st
    ELSE LET b  == ((k - 1) \div Len(lof)) + 1
             i  == ((k - 1) % Len(lof)) + 1
             s0 == IF i = 1 THEN [st EXCEPT !.release_weeks = {}] ELSE st
         IN  SelectFrom(files, builds, lof, k + 1, t, secs, keep,
                        SelectFile(files, builds[b], lof[i], t, secs, keep, s0))

\* print(builds): the repr of a list of strings
RECURSIVE ReprItems(_)
ReprItems(seq) ==
    IF seq = << >> THEN ""
    ELSE "'" \o Head(seq) \o "'" \o (IF Len(seq) > 1 THEN ", " ELSE "") \o ReprItems(Tail(seq))

ReprList(seq) == "[" \o ReprItems(seq) \o "]"

\* lines 59-145: the scan, the date sort, the selection and the two sorts;
\* an exception leaves the lists as they were when it was raised
Select(files, w, t, secs, keep, verbose) ==
    LET sc     == PruneScanFrom(w, 1, EmptyPruneScan, verbose)
        builds == sorted(Range(sc.builds))
        st0    == [raised |-> sc.raised, release_weeks |-> {}, kept |-> << >>,
                   purge |-> << >>, kept_filesize |-> 0, purge_filesize |-> 0,
                   out |-> IF verbose /\ ~sc.raised THEN Append(sc.out, ReprList(builds))
                           ELSE sc.out]
        st     == IF sc.raised THEN st0
                  ELSE SelectFrom(files, builds, SortedByDate(sc.list_of_files),
                                  1, t, secs, keep, st0)
    IN  IF st.raised THEN st
        ELSE [st EXCEPT !.kept = SortedByDate(@), !.purge = SortedByDate(@)]

MiB == 1048576

\* f'{size/(1024**2)}MiB' for a size that is a whole number of MiB, which
\* is what every file of PruneUniverse has
InMiB(size) == NatToStr(size \div MiB) \o ".0MiB"

\* f'{file_name}\t{file_size}\t{file_week}'
RECURSIVE LastSegment(_)
LastSegment(path) ==
    IF ~Contains(path, "/") THEN path ELSE LastSegment(SubSeq(path, 2, Len(path)))

VerboseLine(d) == LastSegment(d.path) \o "\t" \o NatToStr(d.size) \o "\t" \o d.week

RECURSIVE MapLines(_, _)
MapLines(seq, verbose) ==
    IF seq = << >> THEN << >>
    ELSE << IF verbose THEN VerboseLine(Head(seq)) ELSE Head(seq).path >>
             \o MapLines(Tail(seq), verbose)

\* lines 149-163: the report of the kept files
KeptReport(st, verbose, retained) ==
    IF st.kept = << >> \/ ~(verbose \/ retained) THEN << >>
    ELSE << "Below files selected for keeping:" >> \o MapLines(st.kept, verbose)
         \o (IF verbose THEN << "Total size of kept files: " \o InMiB(st.kept_filesize) >>
             ELSE << >>)

\* lines 165-184: the report of the purged files
PurgeReport(st, verbose, delete) ==
    IF st.purge = << >> THEN << "Nothing found to delete." >>
    ELSE (IF verbose
          THEN << "\nBelow files selected for purging:" >>
               \o (IF ~delete THEN << "  --delete not invoked. Keeping all files." >> ELSE << >>)
          ELSE << >>)
         \o MapLines(st.purge, verbose)
         \o (IF verbose THEN << "Total size of purged files: " \o InMiB(st.purge_filesize) >>
             ELSE << >>)

\* lines 179-180: os.remove of every path of the purge list that is a file
Removed(files, purge) ==
    {fr \in files : \A i \in DOMAIN purge : purge[i].path # fr.dirpath \o "/" \o fr.name}

(***************************************************************************)
(* The pruner run over an archive directory                                *)
(***************************************************************************)
MaxPruneFiles == 3

PruneName(device, date, githash, uboot) ==
    DISTRO_NAME \o "-" \o device \o "-12.0-nightly-" \o date \o "-" \o githash \o uboot
        \o ".img.gz"

\* 2023-12-25 .. 2023-12-31 is ISO week 2023-52 and 2024-01-01 opens 2024-1
OldMonday     == File(InDir, PruneName("RPi2.arm", "20231225", "aaa1", ""), 1, 1 * MiB, "p1")
OldSunday     == File(InDir, PruneName("RPi2.arm", "20231231", "aaa2", ""), 2, 2 * MiB, "p2")
OldSundayToo  == File(InDir, PruneName("RPi2.arm", "20231231", "aaa3", ""), 3, 3 * MiB, "p3")
OldSundayRpi  == File(InDir, PruneName("RPi2.arm", "20231231", "aaa4", "-rpi"), 4, 4 * MiB, "p4")
NewYear       == File(InDir, PruneName("RPi2.arm", "20240101", "aaa5", ""), 5, 5 * MiB, "p5")
OldGeneric    == File(SubDir, PruneName("Generic.x86_64", "20231226", "aaa6", ""), 6, 6 * MiB, "p6")
\* a variant tag that reads like the name of another device
OldGenericArm ==
    File(InDir, PruneName("Generic.x86_64", "20231226", "aaa7", "-RPi2.arm"), 7, 7 * MiB, "p7")
NoHash        == File(InDir, "LibreELEC-RPi2.arm-12.0-nightly-20231227.img.gz", 8, 8 * MiB, "p8")
BadDate       == File(InDir, PruneName("RPi2.arm", "20231301", "aaa9", ""), 9, 9 * MiB, "p9")
NotAnImage    == File(InDir, TarName, 10, 10 * MiB, "p10")

PruneUniverse ==
    { OldMonday, OldSunday, OldSundayToo, OldSundayRpi, NewYear, OldGeneric, OldGenericArm,
      NoHash, BadDate, NotAnImage }

PruneWalks == {w \in UNION {[1..n -> PruneUniverse] : n \in 0..MaxPruneFiles} : ValidWalk(w)}

\* datetime.now(): 2024-01-15, at midnight or later in the day
Today == toordinal(2024, 1, 15)

\* --keep: the cutoff is 2024-01-01 or 2023-12-26
Keeps == {14, 20}

InitPrune ==
    /\ walk \in PruneWalks
    /\ disk = Range(walk)
    /\ now = Today
    /\ now_secs \in {0, 1}
    /\ args_keep \in Keeps
    /\ args_delete \in BOOLEAN
    /\ args_retained \in BOOLEAN
    /\ args_verbose \in BOOLEAN
    /\ kept_filepaths = << >>
    /\ purge_filepaths = << >>
    /\ stdout = << >>
    /\ pc = "PruneArchive"
    /\ run = 1
    /\ args_all = FALSE
    /\ manifest_file = AbsentFile
    /\ oldhash = EmptyDict
    /\ scan = EmptyScan
    /\ update_json = EmptyDict
    /\ calls = {}
    /\ item = ""
    /\ train_result = ""

\* a run without the sys.exit() of line 163: the report of the kept files is
\* followed by the purge step
PruneArchive_noexit ==
    /\ pc = "PruneArchive"
    /\ \E st \in {Select(disk, walk, now, now_secs, args_keep, args_verbose)} :
          /\ kept_filepaths' = st.kept
          /\ purge_filepaths' = st.purge
          /\ IF st.raised
             THEN /\ pc' = "failed"
                  /\ stdout' = stdout \o st.out
                  /\ UNCHANGED << walk, disk >>
             ELSE /\ pc' = "done"
                  /\ stdout' = stdout \o st.out \o KeptReport(st, args_verbose, args_retained)
                                   \o PurgeReport(st, args_verbose, args_delete)
                  /\ disk' = IF args_delete THEN Removed(disk, st.purge) ELSE disk
                  /\ walk' = SelectSeq(walk, LAMBDA fr : fr \in disk')
    /\ UNCHANGED << now, now_secs, args_keep, args_delete, args_retained, args_verbose,
                    args_all, manifest_file, oldhash, scan, update_json, calls, item,
                    train_result, run >>

\* ManageArchive(args).PruneArchive(): the whole run
PruneArchive ==
    /\ pc = "PruneArchive"
    /\ \E st \in {Select(disk, walk, now, now_secs, args_keep, args_verbose)} :
          /\ kept_filepaths' = st.kept
          /\ purge_filepaths' = st.purge
          /\ IF st.raised
             THEN /\ pc' = "failed"
                  /\ stdout' = stdout \o st.out
                  /\ UNCHANGED << walk, disk >>
             ELSE IF args_retained /\ st.kept # << >>
             THEN /\ pc' = "exit"
                  /\ stdout' = stdout \o st.out \o KeptReport(st, args_verbose, args_retained)
                  /\ UNCHANGED << walk, disk >>
             ELSE /\ pc' = "done"
                  /\ stdout' = stdout \o st.out \o KeptReport(st, args_verbose, args_retained)
                                   \o PurgeReport(st, args_verbose, args_delete)
                  /\ disk' = IF args_delete THEN Removed(disk, st.purge) ELSE disk
                  /\ walk' = SelectSeq(walk, LAMBDA fr : fr \in disk')
    /\ UNCHANGED << now, now_secs, args_keep, args_delete, args_retained, args_verbose,
                    args_all, manifest_file, oldhash, scan, update_json, calls, item,
                    train_result, run >>

NextPrune == PruneArchive

SpecPrune == InitPrune /\ [][NextPrune]_vars

\* the pruner is started again over what the run before left on disk, with
\* the same arguments and the same clock; the lists and the output of the run
\* before stay as its report until lines 112-113 start new lists
PruneRerun ==
    /\ pc = "done"
    /\ run < MaxRuns
    /\ run' = run + 1
    /\ pc' = "PruneArchive"
    /\ UNCHANGED << walk, disk, now, args_all, manifest_file, oldhash, scan, update_json,
                    calls, item, train_result >>
    /\ UNCHANGED pruner_vars

NextPruneAgain == NextPrune \/ PruneRerun

SpecPruneAgain == InitPrune /\ [][NextPruneAgain]_vars

(***************************************************************************)
(* Properties                                                              *)
(***************************************************************************)
\* the release entries of a manifest, each with its train, device and position
Entries(json) ==
    UNION {UNION {{[train |-> t, build |-> b, pos |-> i,
                    entry |-> json[t].project[b].releases[i]] :
                      i \in 1..Len(json[t].project[b].releases)} :
                  b \in DOMAIN json[t].project} :
           t \in DOMAIN json}

\* the slots of a release entry: file, image and the elements of uboot
SlotsOf(entry) ==
    (IF "file" \in DOMAIN entry THEN {entry.file} ELSE {})
    \cup (IF "image" \in DOMAIN entry THEN {entry.image} ELSE {})
    \cup (IF "uboot" \in DOMAIN entry THEN Range(entry.uboot) ELSE {})

SubPath(dirpath) == removeprefix(dirpath, InDir \o "/")

\* the filename with .tar / .img.gz removed
BaseName(f) == removesuffix(removesuffix(f, ".tar"), ".img.gz")

\* the artifact of directory dirpath named f fills a slot of the manifest
InManifest(f, dirpath) ==
    \E x \in Entries(update_json) : \E sl \in SlotsOf(x.entry) :
        sl.name = f /\ sl.subpath = SubPath(dirpath)

\* the walk kept the file for the grouping
Listed(fr) ==
    \E e \in Range(scan.list_of_files) : e.f = fr.name /\ e.dirpath = fr.dirpath

\* a candidate (distro prefix, .tar or .img.gz) that its pattern does not match
Malformed(f) == Candidate(f) # "ignored" /\ ~ParsedName(f).ok

IsNightly(fr) == Candidate(fr.name) # "ignored" /\ Contains(fr.name, "nightly")

Age(fr) == now - fr.mtime

\* C1: a candidate filename that does not match the expected structure is
\* skipped and the scan goes on; the run never aborts because of it.
C1_MalformedSkipped ==
    (\E i \in 1..Len(walk) : Malformed(walk[i].name)) => ~scan.raised /\ pc # "failed"

\* C2: every file the walk classified, train-resolved and retained fills a
\* slot of some release entry of its (train, device) in the written manifest.
C2_NothingDropped ==
    pc = "done" =>
        \A e \in Range(scan.list_of_files) :
            \E x \in Entries(update_json) :
                /\ x.train = e.train
                /\ x.build = e.device
                /\ \E sl \in SlotsOf(x.entry) :
                      sl.name = e.f /\ sl.subpath = SubPath(e.dirpath)

\* C3: no two release entries of one (train, device) share a base filename.
C3_OneEntryPerBase ==
    \A x, y \in Entries(update_json) :
        (x.train = y.train /\ x.build = y.build /\ x.pos # y.pos) =>
            {BaseName(sl.name) : sl \in SlotsOf(x.entry)}
                \cap {BaseName(sl.name) : sl \in SlotsOf(y.entry)} = {}

\* C4: a tarball X.tar and a plain image X.img.gz, no other artifact sharing
\* X, make exactly one release entry under their train and device, its file
\* slot the tarball and its image slot the image, each with the details
\* get_details gives for that file.
C4_PairOneEntry ==
    pc = "done" =>
        \A t, i \in Range(scan.list_of_files) :
            ( /\ endswith(t.f, ".tar")
              /\ i.f = BaseName(t.f) \o ".img.gz"
              /\ i.uboot = ""
              /\ {e \in Range(scan.list_of_files) : BaseName(e.f) = BaseName(t.f)} = {t, i} )
            =>
            LET mine == {x \in Entries(update_json) :
                            \E sl \in SlotsOf(x.entry) : sl.name \in {t.f, i.f}}
            IN  /\ Cardinality(mine) = 1
                /\ \A x \in mine :
                      /\ x.train = t.train /\ x.build = t.device
                      /\ DOMAIN x.entry = {"file", "image"}
                      /\ x.entry.file = Slot(t, Details(t, x.train, x.build))
                      /\ x.entry.image = Slot(i, Details(i, x.train, x.build))

\* C5: the key of an absent slot is omitted: a file slot is a listed tarball,
\* an image slot is a listed image of the same base, and no file or image
\* slot has an empty name, sha256 or size.
C5_AbsentSlotOmitted ==
    \A x \in Entries(update_json) :
        /\ \A k \in DOMAIN x.entry \cap {"file", "image"} :
              x.entry[k].name # "" /\ x.entry[k].sha256 # "" /\ x.entry[k].size # ""
        /\ "file" \in DOMAIN x.entry =>
              /\ endswith(x.entry.file.name, ".tar")
              /\ x.entry.file.name \in Range(scan.list_of_filenames)
        /\ "image" \in DOMAIN x.entry =>
              /\ endswith(x.entry.image.name, ".img.gz")
              /\ x.entry.image.name \in Range(scan.list_of_filenames)
        /\ {"file", "image"} \subseteq DOMAIN x.entry =>
              BaseName(x.entry.file.name) = BaseName(x.entry.image.name)

\* a written manifest with a tarball-only entry and an image-only entry
C5_Witness ==
    /\ pc = "done"
    /\ \E x \in Entries(update_json) : DOMAIN x.entry = {"file"}
    /\ \E x \in Entries(update_json) : DOMAIN x.entry = {"image"}

C7_NoTrainExcluded ==
    pc = "done" =>
        \A fr \in Range(walk) :
            ( /\ Candidate(fr.name) # "ignored"
              /\ ParsedName(fr.name).ok
              /\ get_train_major_minor(ParsedName(fr.name).train) = None )
            =>
            /\ ~InManifest(fr.name, fr.dirpath)
            /\ (ParsedName(fr.name).distro \o "-" \o None) \notin DOMAIN update_json

\* C8: x.80, x.90, x.95 and x.97 resolve to (x+1).0; x.y with y in {1,3,5,7}
\* resolves to x.(y+1); x.y with y in {0,2,4,6,8} resolves to x.y.
C8_StageTable ==
    pc = "resolved" =>
        \A x \in 0..MaxMajor :
            /\ \A m \in {"80", "90", "95", "97"} :
                  item = Version(x, m) => train_result = Version(x + 1, "0")
            /\ \A y \in {1, 3, 5, 7} :
                  item = Version(x, DigitStr(y)) => train_result = Version(x, DigitStr(y + 1))
            /\ \A y \in {0, 2, 4, 6, 8} :
                  item = Version(x, DigitStr(y)) => train_result = Version(x, DigitStr(y))

\* C9: a get_details call whose key is in the cache returns the cached
\* sha256, size and timestamp and uses no primitive (no hashing, no sidecar
\* read, no stat); calls with the same cached key return the same triple.
C9_CacheHit ==
    /\ \A c \in calls :
          c.key \in DOMAIN oldhash =>
              /\ c.prims = {}
              /\ c.sha256 = oldhash[c.key].sha256
              /\ c.size = oldhash[c.key].size
              /\ c.timestamp = oldhash[c.key].timestamp
    /\ \A c, d \in calls :
          (c.key = d.key /\ c.key \in DOMAIN oldhash) =>
              c.sha256 = d.sha256 /\ c.size = d.size /\ c.timestamp = d.timestamp

\* two calls with the same cached key, one of them for a file whose content,
\* size and time on disk are not what the cache holds
C9_Witness ==
    \E c, d \in calls :
        /\ c # d
        /\ c.key = d.key
        /\ c.key \in DOMAIN oldhash
        /\ \E fr \in disk :
              /\ fr.name = d.file /\ fr.dirpath = d.path
              /\ calculate_sha256(fr.content) # d.sha256
              /\ NatToStr(fr.size) # d.size
              /\ isoformat(fr.mtime) # d.timestamp

WrongNesting(doc) ==
    \E t \in DOMAIN doc :
        IF "project" \notin DOMAIN doc[t] THEN TRUE
        ELSE \E b \in DOMAIN doc[t].project :
                IF "releases" \notin DOMAIN doc[t].project[b] THEN TRUE
                ELSE doc[t].project[b].releases.kind = "array"

LacksField(doc) ==
    \E t \in DOMAIN doc : \E b \in DOMAIN doc[t].project :
        \E e \in Range(doc[t].project[b].releases.items) :
            \E r \in SlotsOf(e) : ~(Fields \subseteq DOMAIN r)

MalformedManifest(mf) ==
    \/ mf.kind = "invalid"
    \/ /\ mf.kind = "json"
       /\ IF WrongNesting(mf.doc) THEN TRUE ELSE LacksField(mf.doc)

\* C10: after ReadFile on a previous manifest that is not JSON, is wrongly
\* nested or has a record lacking name, sha256, size or timestamp, the
\* digest cache is empty.
C10_MalformedEmptiesCache ==
    (pc = "UpdateFile" /\ MalformedManifest(manifest_file)) => oldhash = EmptyDict

\* C11: a second run over the unchanged tree, seeded with the manifest of the
\* first, is about to write exactly what the first wrote.
C11_SecondRunIdentical ==
    (run = 2 /\ pc = "WriteFile") => JsonFile(JsonDump(update_json)) = manifest_file

\* C12: the written manifest is made of the current scan only: every train
\* key has a device, every device key has a release entry, every slot is a
\* file the walk listed under that train and device; what only the previous
\* manifest had is absent.
C12_OnlyCurrentScan ==
    pc = "done" =>
        \A t \in DOMAIN manifest_file.doc :
            /\ t \in Range(scan.releases)
            /\ DOMAIN manifest_file.doc[t].project # {}
            /\ \A b \in DOMAIN manifest_file.doc[t].project :
                  LET items == manifest_file.doc[t].project[b].releases.items
                  IN  /\ b \in Range(scan.builds)
                      /\ items # << >>
                      /\ \A i \in 1..Len(items) :
                            /\ SlotsOf(items[i]) # {}
                            /\ \A sl \in SlotsOf(items[i]) :
                                  \E e \in Range(scan.list_of_files) :
                                      /\ e.f = sl.name
                                      /\ SubPath(e.dirpath) = sl.subpath
                                      /\ e.train = t
                                      /\ e.device = b

\* a manifest written over one that had train LibreELEC-9.2, with a listed
\* device that has no artifact in one of the trains
C12_Witness ==
    /\ pc = "done"
    /\ \E k \in DOMAIN oldhash : startswith(k, "LibreELEC-9.2;")
    /\ "LibreELEC-9.2" \notin DOMAIN manifest_file.doc
    /\ \E t \in DOMAIN manifest_file.doc : \E b \in Range(scan.builds) :
          b \notin DOMAIN manifest_file.doc[t].project

\* the pruner ran to its end: it returned or left through sys.exit()
Pruned == pc \in {"done", "exit"}

\* the device and the variant tag a path of the kept or purge list names
NameOf(d)   == prune_regex_nightly_image(LastSegment(d.path))
DeviceOf(d) == NameOf(d).device
TagOf(d)    == NameOf(d).uboot

\* C13: among the nightly images older than the cutoff at most one file is
\* kept for each (device, ISO year, ISO week), files with different
\* bootloader-variant tags included: no two entries of the kept list name
\* the same device and the same year-week.
C13_OnePerDeviceWeek ==
    Pruned =>
        \A i, j \in DOMAIN kept_filepaths :
            (i # j /\ DeviceOf(kept_filepaths[i]) = DeviceOf(kept_filepaths[j]))
                => kept_filepaths[i].week # kept_filepaths[j].week

\* the date a file name embeds is not before now less the retention days
InWindow(fr) ==
    LET parsed == prune_regex_nightly_image(fr.name)
        dt     == fromisoformat(parsed.date)
    IN  /\ PruneCandidate(fr.name) /\ parsed.ok /\ ~dt.raised
        /\ \/ dt.ord > now - args_keep
           \/ dt.ord = now - args_keep /\ now_secs = 0

PathOf(fr) == fr.dirpath \o "/" \o fr.name

Paths(list) == {list[i].path : i \in DOMAIN list}

\* the label of the bucket of a kept or purged file: the variant tag of its
\* name when there is one, its device otherwise
LabelOf(d) ==
    LET tag == lchop(TagOf(d), "-") IN IF tag # "" THEN tag ELSE DeviceOf(d)

\* C14: a file whose embedded date is not older than now less the retention
\* days is never in the purge list and never deleted, and it occupies no
\* bucket: it is not in the kept list, and whatever is purged was purged for
\* a kept file, older than the cutoff, of the same bucket label and week.
C14_WindowUntouched ==
    [][pc = "PruneArchive" =>
          /\ \A fr \in disk :
                InWindow(fr) => /\ fr \in disk'
                                /\ PathOf(fr) \notin Paths(purge_filepaths')
                                /\ PathOf(fr) \notin Paths(kept_filepaths')
          /\ pc' # "failed" =>
                \A i \in DOMAIN purge_filepaths' :
                    \E j \in DOMAIN kept_filepaths' :
                        /\ LabelOf(kept_filepaths'[j]) = LabelOf(purge_filepaths'[i])
                        /\ kept_filepaths'[j].week = purge_filepaths'[i].week]_vars

\* a deleting run with a retention of 20 days: the image of 2023-12-25 holds
\* the bucket of RPi2.arm in week 2023-52 and the two images of 2023-12-31,
\* same device and week, are in the window and still on disk
C14_Witness ==
    /\ pc = "done" /\ args_delete /\ args_keep = 20
    /\ PathOf(OldMonday) \in Paths(kept_filepaths)
    /\ {OldSunday, OldSundayToo} \subseteq disk

\* C15: a file leaves the disk only when deletion is requested: without
\* --delete the files on disk are the same after the run, and with it every
\* removed file is in the purge list and is not a kept file.
C15_OnlyPurgedRemoved ==
    [][pc = "PruneArchive" =>
          /\ ~args_delete => disk' = disk
          /\ \A fr \in disk \ disk' :
                /\ args_delete
                /\ PathOf(fr) \in Paths(purge_filepaths')
                /\ PathOf(fr) \notin Paths(kept_filepaths')]_vars

\* a nightly image whose embedded date is before now less the retention days
BeyondWindow(fr) ==
    LET parsed == prune_regex_nightly_image(fr.name)
        dt     == fromisoformat(parsed.date)
    IN  /\ PruneCandidate(fr.name) /\ parsed.ok /\ ~dt.raised
        /\ \/ dt.ord < now - args_keep
           \/ dt.ord = now - args_keep /\ now_secs > 0

\* the (device, ISO year, ISO week) of a nightly image
DeviceWeek(fr) ==
    LET parsed == prune_regex_nightly_image(fr.name)
        dt     == fromisoformat(parsed.date)
    IN  << parsed.device, isocalendar(dt.year, dt.ord) >>

SameBucket(a, b) ==
    BeyondWindow(a) /\ BeyondWindow(b) /\ DeviceWeek(a) = DeviceWeek(b)

\* w[i] comes before w[j]: by embedded date, then by place in the scan
Earlier(w, i, j) ==
    LET di == prune_regex_nightly_image(w[i].name).date
        dj == prune_regex_nightly_image(w[j].name).date
    IN  StrLess(di, dj) \/ (di = dj /\ i < j)

\* C16: of two nightly images of one device in one ISO year-week beyond the
\* retention window the later one is purged, and the one that comes before
\* all others of its bucket is kept; the embedded date decides, and for
\* equal dates the place in the scan.
C16_EarliestKept ==
    [][(pc = "PruneArchive" /\ pc' # "failed") =>
          \A i, j \in DOMAIN walk :
              (i # j /\ SameBucket(walk[i], walk[j]) /\ Earlier(walk, i, j)) =>
                  /\ PathOf(walk[j]) \in Paths(purge_filepaths')
                  /\ (\A k \in DOMAIN walk \ {i} :
                         SameBucket(walk[i], walk[k]) => Earlier(walk, i, k))
                       => PathOf(walk[i]) \in Paths(kept_filepaths')]_vars

\* C17: releases.json changes in WriteFile alone, the last step: ReadFile and
\* UpdateFile, and a run that fails in them, leave it as it was.
C17_WrittenLast ==
    [][manifest_file' # manifest_file => (pc = "WriteFile" /\ pc' = "done")]_vars

\* a run that failed while it read the details of its files, the manifest of
\* the run before still in place
C17_Witness == pc = "failed" /\ ~scan.raised /\ manifest_file = PrevGood

\* C18: a listed file that is gone when its digest, size or time is read
\* costs only that artifact, the run completes and writes the manifest: a
\* run fails in the walk or not at all.
C18_RunCompletes == pc = "failed" => scan.raised

\* the variant tag of an artifact name, without its leading '-'
VariantOf(f) == removeprefix(ParsedName(f).uboot, "-")

\* the base filename with the artifact's own variant suffix stripped
StrippedBase(f) == removesuffix(BaseName(f), "-" \o VariantOf(f))

\* C19: a uboot list holds only bootloader-variant images, .img.gz names with
\* a variant tag, whose base without the own variant suffix is the stripped
\* base of the list's first artifact; no tarball, no plain image and no
\* artifact of another version is in a uboot list.
C19_UbootOnlyVariants ==
    pc \in {"WriteFile", "done"} =>
        \A x \in Entries(update_json) :
            "uboot" \in DOMAIN x.entry =>
                \A i \in DOMAIN x.entry.uboot :
                    LET f == x.entry.uboot[i].name
                    IN  /\ endswith(f, ".img.gz")
                        /\ VariantOf(f) # ""
                        /\ StrippedBase(f) = StrippedBase(x.entry.uboot[1].name)

\* the rows of the table whose pattern is found in item
MatchingRows(it) == {n \in DOMAIN VERSIONS : VersionSearch(it, VERSIONS[n].minor)[1] # 0}

\* what row n alone makes of item
RowResult(it, n) ==
    LET se == VersionSearch(it, VERSIONS[n].minor)
    IN  FormatOneDecimal(MatchHundredths(SubSeq(it, se[1], se[2] - 1)) + VERSIONS[n].adjust)

\* C20: at most one stage rule matches a major.minor string, so the train
\* does not depend on the order of the table: it is what every matching row
\* gives, None when no row matches, and the same each time it is resolved.
C20_OneRuleMatches ==
    pc = "resolved" =>
        /\ Cardinality(MatchingRows(item)) <= 1
        /\ \A n \in MatchingRows(item) : train_result = RowResult(item, n)
        /\ MatchingRows(item) = {} => train_result = None
        /\ train_result = get_train_major_minor(item)

\* 9.95 resolved by the beta row alone
C20_Witness ==
    /\ pc = "resolved" /\ item = "9.95" /\ train_result = "10.0"
    /\ \E n \in MatchingRows(item) : VERSIONS[n].label = "beta"

\* C21: pruning is idempotent: the run after a deleting run, same retention
\* and same clock, selects nothing for purge and keeps the files the run
\* before kept.
C21_Idempotent ==
    [][(pc = "PruneArchive" /\ run > 1 /\ args_delete) =>
          /\ purge_filepaths' = << >>
          /\ Paths(kept_filepaths') = Paths(kept_filepaths)]_vars

\* the paths of a kept or purge list, one line each
PathLines(list) == [i \in DOMAIN list |-> list[i].path]

====
